---------------------------- MODULE Spec2Model ----------------------------
(***************************************************************************)
(* FotoReport MVP (src/app.py): a Streamlit script over a Postgres         *)
(* database.  Every user interaction reruns the script top to bottom; one  *)
(* action of this module is one such run with one widget acted on.         *)
(*                                                                         *)
(* The database tables are sequences of rows (row id = position, rows are  *)
(* never updated or deleted by the program).  Python str values are        *)
(* sequences of one-character strings, bytes values are sequences of       *)
(* 0..255, so that strip/lower, hex()/fromhex() and strftime() are         *)
(* computed and not assumed.                                               *)
(***************************************************************************)
EXTENDS Integers, Sequences, FiniteSets, TLC

(***************************************************************************)
(* Bounds of the model.                                                    *)
(***************************************************************************)
MaxUsuarios == 2      \* rows of usuarios
MaxClientes == 2      \* rows of clientes
MaxLocales == 2       \* rows of locales
MaxAsignaciones == 2  \* rows of asignaciones
MaxReportes == 3      \* rows of reportes
MaxFotos == 5         \* photos of one report / of the photo buffer
MaxUpload == 3        \* files of one upload batch
MaxSalts == 2         \* salts secrets.token_bytes can draw

(***************************************************************************)
(* Python str: characters, strip(), lower(), code points.                  *)
(***************************************************************************)
Ord(c) ==
  CASE c = " " -> 32 [] c = "-" -> 45
    [] c = "0" -> 48 [] c = "1" -> 49 [] c = "2" -> 50 [] c = "3" -> 51
    [] c = "4" -> 52 [] c = "5" -> 53 [] c = "6" -> 54 [] c = "7" -> 55
    [] c = "8" -> 56 [] c = "9" -> 57
    [] c = "A" -> 65 [] c = "B" -> 66 [] c = "C" -> 67 [] c = "D" -> 68
    [] c = "E" -> 69 [] c = "F" -> 70 [] c = "N" -> 78
    [] c = "a" -> 97 [] c = "b" -> 98 [] c = "c" -> 99 [] c = "d" -> 100
    [] c = "e" -> 101 [] c = "f" -> 102 [] c = "n" -> 110 [] c = "z" -> 122

IsSpace(c) == c = " "

LowerChar(c) ==
  CASE c = "A" -> "a" [] c = "B" -> "b" [] c = "C" -> "c" [] c = "D" -> "d"
    [] c = "E" -> "e" [] c = "F" -> "f" [] c = "N" -> "n" [] OTHER -> c

\* str.lower()
Lower(s) == [i \in 1..Len(s) |-> LowerChar(s[i])]

RECURSIVE LStrip(_)
LStrip(s) == IF s # <<>> /\ IsSpace(Head(s)) THEN LStrip(Tail(s)) ELSE s

RECURSIVE RStrip(_)
RStrip(s) ==
  IF s # <<>> /\ IsSpace(s[Len(s)]) THEN RStrip(SubSeq(s, 1, Len(s) - 1)) ELSE s

\* str.strip()
Strip(s) == RStrip(LStrip(s))

\* lexicographic order of two str values by code point (text comparison)
RECURSIVE StrLeq(_, _)
StrLeq(a, b) ==
  IF a = <<>> THEN TRUE
  ELSE IF b = <<>> THEN FALSE
  ELSE IF Ord(Head(a)) < Ord(Head(b)) THEN TRUE
  ELSE IF Ord(Head(a)) > Ord(Head(b)) THEN FALSE
  ELSE StrLeq(Tail(a), Tail(b))

(***************************************************************************)
(* Python bytes: hex(), fromhex(), encode("utf-8") of ASCII text.          *)
(***************************************************************************)
HexDigits ==
  <<"0", "1", "2", "3", "4", "5", "6", "7", "8", "9", "a", "b", "c", "d", "e", "f">>

\* bytes.hex(): two lower-case digits per byte
RECURSIVE BytesHex(_)
BytesHex(b) ==
  IF b = <<>> THEN <<>>
  ELSE <<HexDigits[(Head(b) \div 16) + 1], HexDigits[(Head(b) % 16) + 1]>>
         \o BytesHex(Tail(b))

IsHexDigit(c) == \E i \in 1..16 : LowerChar(c) = HexDigits[i]

HexVal(c) == (CHOOSE i \in 1..16 : LowerChar(c) = HexDigits[i]) - 1

\* bytes.fromhex() accepts pairs of hex digits, with white space between pairs
RECURSIVE IsHexText(_)
IsHexText(s) ==
  IF s = <<>> THEN TRUE
  ELSE IF IsSpace(Head(s)) THEN IsHexText(Tail(s))
  ELSE /\ Len(s) >= 2
       /\ IsHexDigit(s[1])
       /\ IsHexDigit(s[2])
       /\ IsHexText(SubSeq(s, 3, Len(s)))

RECURSIVE FromHex(_)
FromHex(s) ==
  IF s = <<>> THEN <<>>
  ELSE IF IsSpace(Head(s)) THEN FromHex(Tail(s))
  ELSE <<HexVal(s[1]) * 16 + HexVal(s[2])>> \o FromHex(SubSeq(s, 3, Len(s)))

\* str.encode("utf-8") of ASCII text
Utf8(s) == [i \in 1..Len(s) |-> Ord(s[i])]

(***************************************************************************)
(* Values read from a pw_salt / pw_hash / imagen_bytes column: NULL, a     *)
(* bytes buffer (bytea) or a str (text).                                   *)
(***************************************************************************)
PyNone == [t |-> "none", x |-> <<>>]
PyBytes(b) == [t |-> "bytes", x |-> b]
PyStr(s) == [t |-> "str", x |-> s]

\* _as_bytes without the hex branch: text is always encoded as UTF-8
AsBytesNoHex(v) ==
  IF v.t = "none" THEN <<>>
  ELSE IF v.t = "bytes" THEN v.x
  ELSE Utf8(v.x)

_as_bytes(v) ==
  IF v.t = "none" THEN <<>>
  ELSE IF v.t = "bytes" THEN v.x
  ELSE IF IsHexText(v.x) THEN FromHex(v.x)
  ELSE Utf8(v.x)


(***************************************************************************)
(* The database schema.  The program reads the storage type (udt_name) of  *)
(* some columns from information_schema.columns and adapts to it.  Keys    *)
(* are <<table, column>>.  Schemas lists the deployments checked: native   *)
(* types, the legacy integer/text types, and two mixed ones.               *)
(***************************************************************************)
Tables == {"usuarios", "clientes", "locales", "asignaciones"}

Keys ==
  {<<"usuarios", "activo">>, <<"usuarios", "pw_salt">>, <<"usuarios", "pw_hash">>,
   <<"usuarios", "creado_en">>, <<"clientes", "activo">>, <<"clientes", "creado_en">>,
   <<"locales", "activo">>, <<"locales", "creado_en">>,
   <<"asignaciones", "activo">>, <<"asignaciones", "asignado_en">>,
   <<"reportes", "creado_en">>, <<"reportes", "fecha_visita">>,
   <<"fotos", "creado_en">>}

SchemaNative ==
  [k \in Keys |->
     CASE k[2] = "activo" -> "bool"
       [] k[2] \in {"pw_salt", "pw_hash"} -> "bytea"
       [] k[2] = "fecha_visita" -> "date"
       [] OTHER -> "timestamptz"]

SchemaLegacy ==
  [k \in Keys |->
     CASE k[2] = "activo" -> "int4"
       [] OTHER -> "text"]

SchemaMixedA ==
  [k \in Keys |->
     CASE k[2] = "activo" -> (IF k[1] \in {"usuarios", "locales"} THEN "bool" ELSE "int4")
       [] k[2] = "pw_salt" -> "bytea"
       [] k[2] = "pw_hash" -> "text"
       [] k[2] = "fecha_visita" -> "date"
       [] k[2] = "asignado_en" -> "date"
       [] OTHER -> "timestamp"]

SchemaMixedB ==
  [k \in Keys |->
     CASE k[2] = "activo" -> (IF k[1] \in {"usuarios", "locales"} THEN "int4" ELSE "bool")
       [] k[2] = "pw_salt" -> "text"
       [] k[2] = "pw_hash" -> "bytea"
       [] k[2] = "fecha_visita" -> "text"
       [] OTHER -> "timestamptz"]

Schemas == {SchemaNative, SchemaLegacy, SchemaMixedA, SchemaMixedB}

\* a deployment with types the program has no branch for, and without the
\* column reportes.fecha_visita
SchemaUnknown ==
  [k \in Keys \ {<<"reportes", "fecha_visita">>} |->
     CASE k[2] = "activo" -> "int2"
       [] k[2] \in {"pw_salt", "pw_hash"} -> "bytea"
       [] OTHER -> "varchar"]

NotCached == "?"

VARIABLES
  schema,         \* the database catalog: Keys -> udt_name
  usuarios,       \* table usuarios
  clientes,       \* table clientes
  locales,        \* table locales
  asignaciones,   \* table asignaciones
  reportes,       \* table reportes
  fotos,          \* table fotos
  pg_con,         \* st.session_state.pg_con: the session's connection
  col_udt_cache,  \* st.session_state._col_udt_cache
  catalog_queries,\* how many times the session has queried the catalog, per key
  user,           \* st.session_state.user
  photo_buffer,   \* st.session_state.photo_buffer
  up,             \* the files held by the st.file_uploader widget
  pdf,            \* st.session_state.pdf_bytes / pdf_name, and the page's widgets
  outcome         \* what the last script run did and showed

vars ==
  <<schema, usuarios, clientes, locales, asignaciones, reportes, fotos, pg_con,
    col_udt_cache, catalog_queries, user, photo_buffer, up, pdf, outcome>>

db == <<schema, usuarios, clientes, locales, asignaciones, reportes, fotos>>

(***************************************************************************)
(* DB helpers.  The connection is psycopg's, not in autocommit: a          *)
(* statement opens a transaction, only commit() ends it, and after a       *)
(* statement has failed the server refuses every statement until the       *)
(* transaction is ended (InFailedSqlTransaction).  The program never       *)
(* calls rollback().                                                       *)
(*   ok: whether the statement is one the server can carry out.            *)
(***************************************************************************)
\* the connection the session holds after db_connect()
db_connect(con) == IF con \in {"none", "closed"} THEN "idle" ELSE con

\* cur.execute(sql, params) on connection con
Execute(con, ok) == IF con = "inerror" \/ ~ok THEN "inerror" ELSE "intrans"

\* db_query: execute, fetchall, no commit
db_query(con, ok) == Execute(db_connect(con), ok)

\* db_exec: execute, then commit unless execute raised
db_exec(con, ok) ==
  IF Execute(db_connect(con), ok) = "inerror" THEN "inerror" ELSE "idle"

\* whether the call raised
Raised(con) == con = "inerror"

(***************************************************************************)
(* Schema/type helpers.                                                    *)
(***************************************************************************)
\* the rows of the catalog query of _col_udt
CatalogRows(key) == IF key \in DOMAIN schema THEN <<schema[key]>> ELSE <<>>

\* the value _col_udt caches on a miss
CatalogTag(key) == IF CatalogRows(key) # <<>> THEN CatalogRows(key)[1] ELSE ""

_col_udt(table, column) ==
  IF col_udt_cache[<<table, column>>] # NotCached
  THEN col_udt_cache[<<table, column>>]
  ELSE CatalogTag(<<table, column>>)

\* a _col_udt that does not keep what it has looked up
CacheNeverWritten(ks) == col_udt_cache

\* the cache after _col_udt has been called for every key of ks
CacheAfter(ks) ==
  [k \in Keys |->
     IF k \in ks /\ col_udt_cache[k] = NotCached THEN CatalogTag(k)
     ELSE col_udt_cache[k]]

\* the catalog queries made so far, after _col_udt has been called for every
\* key of ks: a call queries when the key is not in the cache
QueriesAfter(ks) ==
  [k \in Keys |->
     IF k \in ks /\ col_udt_cache[k] = NotCached THEN catalog_queries[k] + 1
     ELSE catalog_queries[k]]

\* a run that calls _col_udt for the keys of ks
Lookups(ks) ==
  /\ col_udt_cache' = CacheAfter(ks)
  /\ catalog_queries' = QueriesAfter(ks)

\* the queries behind a cache: one for each entry
QueriesOf(cache) == [k \in Keys |-> IF cache[k] = NotCached THEN 0 ELSE 1]

\* values of an activo column: Python True / False / None and integers
ActivoDomain(udt) ==
  IF udt = "bool" THEN {"true", "false", "null"} ELSE {"1", "0", "2", "null"}

_activo_value(table) == IF _col_udt(table, "activo") = "bool" THEN "true" ELSE "1"

\* _activo_where without the boolean branch
ActivoWhereAlwaysCoalesce(table) == "COALESCE(col,0)=1"

\* the predicate text built by _activo_where
_activo_where(table) ==
  IF _col_udt(table, "activo") = "bool" THEN "IS TRUE" ELSE "COALESCE(col,0)=1"

\* the server's evaluation of such a predicate on a column of type udt holding v:
\* IS TRUE needs a boolean column, COALESCE(col,0) an integer one
SqlWhere(pred, udt, v) ==
  IF pred = "IS TRUE"
  THEN IF udt # "bool" THEN "error" ELSE IF v = "true" THEN "yes" ELSE "no"
  ELSE IF udt = "bool" THEN "error"
       ELSE IF v = "1" THEN "yes" ELSE "no"

\* whether a row of table with activo = v is selected by the table's predicate
Activo(table, v) == SqlWhere(_activo_where(table), schema[<<table, "activo">>], v) = "yes"

\* the kind of value _now_for binds
_now_for(table, column) ==
  IF _col_udt(table, column) \in {"timestamp", "timestamptz"} THEN "datetime"
  ELSE IF _col_udt(table, column) = "date" THEN "date"
  ELSE "str"

(***************************************************************************)
(* Password hashing.  hash_password stands for PBKDF2-HMAC-SHA256: a       *)
(* function of the password's bytes and the salt, here two bytes wide, in  *)
(* which the passwords "a" and "e" collide under some salts.               *)
(***************************************************************************)
RECURSIVE SumBytes(_)
SumBytes(b) == IF b = <<>> THEN 0 ELSE Head(b) + SumBytes(Tail(b))

hash_password(password, salt) ==
  LET k == SumBytes(Utf8(password)) + SumBytes(salt)
  IN  <<(k % 4) * 64 + 10, 255 - ((k \div 8) % 2)>>

\* secrets.token_bytes: one of MaxSalts salts, two bytes wide
Salts == {<<5 * i, 255 - i>> : i \in 1..MaxSalts}

\* what the forms can be filled with
UsuarioInputs == {<<"a">>, <<" ", "A">>, <<"b">>, <<" ">>}
NombreInputs == {<<"N">>, <<" ">>}
PasswordInputs == {<<>>, <<"a">>, <<"e">>}
Roles == {"trabajador", "admin"}

NoUser == [id |-> 0, usuario |-> <<>>, nombre |-> <<>>, rol |-> ""]

\* the row create_user inserts; g remembers the call's arguments and the salt drawn
UserRow(usuario, nombre_completo, rol, password, salt) ==
  [usuario |-> Lower(Strip(usuario)),
   nombre_completo |-> Strip(nombre_completo),
   rol |-> rol,
   pw_salt |-> IF _col_udt("usuarios", "pw_salt") = "bytea"
               THEN PyBytes(salt) ELSE PyStr(BytesHex(salt)),
   pw_hash |-> IF _col_udt("usuarios", "pw_hash") = "bytea"
               THEN PyBytes(hash_password(password, salt))
               ELSE PyStr(BytesHex(hash_password(password, salt))),
   activo |-> _activo_value("usuarios"),
   creado_en |-> _now_for("usuarios", "creado_en"),
   g |-> [usuario |-> usuario, password |-> password, salt |-> salt]]

\* the catalog lookups create_user makes before its INSERT
CreateUserKeys ==
  {<<"usuarios", "pw_salt">>, <<"usuarios", "pw_hash">>, <<"usuarios", "activo">>,
   <<"usuarios", "creado_en">>}

\* usuarios.usuario is unique: the INSERT of create_user is refused for a taken name
UsuarioTaken(usuario) ==
  \E i \in 1..Len(usuarios) : usuarios[i].usuario = Lower(Strip(usuario))

\* int(r["activo"]) raises for None
PyIntRaises(v) == v = "null"

PyInt(v) == CASE v \in {"true", "1"} -> 1 [] v \in {"false", "0"} -> 0 [] v = "2" -> 2

\* str(r.get("activo", "")).lower()
PyStrLower(v) == IF v = "null" THEN "none" ELSE v

\* the activo test with an except clause that lets the login go on
LoginActivoExceptPasses(v) == IF PyIntRaises(v) THEN TRUE ELSE PyInt(v) = 1

\* the activo test of verify_login: TRUE when the login goes on
LoginActivo(v) ==
  IF PyIntRaises(v) THEN PyStrLower(v) \in {"1", "true", "t", "yes", "y"}
  ELSE PyInt(v) = 1

\* secrets.compare_digest
compare_digest(a, b) == a = b

verify_login(usuario, password) ==
  LET rows == {i \in 1..Len(usuarios) : usuarios[i].usuario = Lower(Strip(usuario))}
  IN  IF rows = {} THEN NoUser
      ELSE LET i == CHOOSE j \in rows : \A k \in rows : j <= k
               r == usuarios[i]
           IN  IF ~LoginActivo(r.activo) THEN NoUser
               ELSE IF compare_digest(hash_password(password, _as_bytes(r.pw_salt)),
                                      _as_bytes(r.pw_hash))
               THEN [id |-> i, usuario |-> r.usuario, nombre |-> r.nombre_completo,
                     rol |-> r.rol]
               ELSE NoUser

\* admins_exist without the condition on activo
AdminsExistAnyActivo == \E i \in 1..Len(usuarios) : usuarios[i].rol = "admin"

admins_exist ==
  \E i \in 1..Len(usuarios) :
    usuarios[i].rol = "admin" /\ Activo("usuarios", usuarios[i].activo)

(***************************************************************************)
(* Data helpers: the ids the listing queries return.                       *)
(***************************************************************************)
get_clientes == {i \in 1..Len(clientes) : Activo("clientes", clientes[i].activo)}

get_locales ==
  {i \in 1..Len(locales) :
     /\ Activo("locales", locales[i].activo)
     /\ locales[i].cliente_id \in get_clientes}

get_locales_asignados(usuario_id) ==
  {l \in get_locales :
     \E a \in 1..Len(asignaciones) :
       /\ asignaciones[a].usuario_id = usuario_id
       /\ asignaciones[a].local_id = l
       /\ Activo("asignaciones", asignaciones[a].activo)}

\* the active users listed in the Asignaciones tab
usuarios_activos == {i \in 1..Len(usuarios) : Activo("usuarios", usuarios[i].activo)}

(***************************************************************************)
(* Script runs.  Every run starts with ensure_schema_or_stop (six          *)
(* queries) and admins_exist; then the bootstrap form, the login form or   *)
(* the page chosen in the sidebar.  outcome records the run: op is the     *)
(* widget acted on, result the message shown (or the exception raised),    *)
(* a and b the ids the run was about, u and p the fields of a login.       *)
(***************************************************************************)
Out(op, result, a, b) ==
  [op |-> op, result |-> result, a |-> a, b |-> b, u |-> <<>>, p |-> <<>>]

\* the outcome of a login run, with the two fields of the form
OutLogin(result, id, u, p) ==
  [op |-> "login", result |-> result, a |-> id, b |-> 0, u |-> u, p |-> p]

NoPdf == [ready |-> FALSE, cid |-> 0, desde |-> <<>>, hasta |-> <<>>, doc |-> <<>>,
          foto_queries |-> 0]

EmptyCache == [k \in Keys |-> NotCached]

\* the six queries of ensure_schema_or_stop go through
SchemaOk == ~Raised(db_query(pg_con, TRUE))

PrologueKeys == {<<"usuarios", "activo">>}

GetLocalesKeys == {<<"locales", "activo">>, <<"clientes", "activo">>}

\* the catalog lookups made by rendering a page
PageKeys(page, rol) ==
  PrologueKeys \cup
  CASE page = "Admin" -> GetLocalesKeys
    [] page = "Nuevo reporte" ->
         IF rol = "admin" THEN GetLocalesKeys
         ELSE GetLocalesKeys \cup {<<"asignaciones", "activo">>}
    [] page = "Mis reportes" -> {<<"reportes", "fecha_visita">>}
    [] page = "PDF por cliente" -> {<<"clientes", "activo">>}

Pages(rol) ==
  IF rol = "admin" THEN {"Admin", "Nuevo reporte", "Mis reportes", "PDF por cliente"}
  ELSE {"Nuevo reporte", "Mis reportes"}

\* pages[0], the page shown after login
FirstPage(rol) == IF rol = "admin" THEN "Admin" ELSE "Nuevo reporte"

\* the cache after the first rendering of a page
PageCache(page, rol) ==
  [k \in Keys |-> IF k \in PageKeys(page, rol) THEN schema[k] ELSE NotCached]

\* the run stops in ensure_schema_or_stop: the connection refuses its first query
ensure_schema_or_stop ==
  /\ ~SchemaOk
  /\ pg_con' = db_query(pg_con, TRUE)
  /\ outcome' = Out("ensure_schema_or_stop", "InFailedSqlTransaction", 0, 0)
  /\ UNCHANGED <<db, col_udt_cache, catalog_queries, user, photo_buffer, up, pdf>>

\* the fields of a user form that pass its two checks
ValidUsuarios == {u \in UsuarioInputs : Strip(u) # <<>>}
ValidNombres == {n \in NombreInputs : Strip(n) # <<>>}
ValidPasswords == PasswordInputs \ {<<>>}

\* "Faltan campos.": a required field is empty
FaltanCampos ==
  \E usuario \in UsuarioInputs, nombre \in NombreInputs, pw1 \in PasswordInputs :
    Strip(usuario) = <<>> \/ Strip(nombre) = <<>> \/ pw1 = <<>>

\* "Passwords no coinciden.": the fields are filled and the passwords differ
NoCoinciden ==
  \E usuario \in ValidUsuarios, nombre \in ValidNombres, pw1 \in ValidPasswords,
     pw2 \in PasswordInputs : pw1 # pw2

\* the form "bootstrap_admin", shown while no active admin exists
bootstrap_admin ==
  /\ SchemaOk
  /\ ~admins_exist
  /\ \/ /\ FaltanCampos
        /\ outcome' = Out("bootstrap_admin", "Faltan campos.", 0, 0)
        /\ pg_con' = db_query(pg_con, TRUE)
        /\ Lookups(PrologueKeys)
        /\ UNCHANGED usuarios
     \/ /\ NoCoinciden
        /\ outcome' = Out("bootstrap_admin", "Passwords no coinciden.", 0, 0)
        /\ pg_con' = db_query(pg_con, TRUE)
        /\ Lookups(PrologueKeys)
        /\ UNCHANGED usuarios
     \/ \* the INSERT raises; the except clause shows the error
        /\ \E usuario \in ValidUsuarios : UsuarioTaken(usuario)
        /\ outcome' = Out("bootstrap_admin", "No se pudo crear el admin", 0, 0)
        /\ pg_con' = db_exec(db_query(pg_con, TRUE), FALSE)
        /\ Lookups(PrologueKeys \cup CreateUserKeys)
        /\ UNCHANGED usuarios
     \/ \E usuario \in ValidUsuarios, nombre \in ValidNombres, pw1 \in ValidPasswords,
           salt \in Salts :
          /\ ~UsuarioTaken(usuario)
          /\ Len(usuarios) < MaxUsuarios
          /\ usuarios' = Append(usuarios, UserRow(usuario, nombre, "admin", pw1, salt))
          /\ outcome' = Out("bootstrap_admin", "Admin creado.", Len(usuarios) + 1, 0)
          /\ pg_con' = db_exec(db_query(pg_con, TRUE), TRUE)
          /\ Lookups(PrologueKeys \cup CreateUserKeys)
  /\ UNCHANGED <<schema, clientes, locales, asignaciones, reportes, fotos, user,
                 photo_buffer, up, pdf>>

\* the button "Entrar" of the login form; a login that succeeds reruns the
\* script, which renders the first page
login ==
  /\ SchemaOk
  /\ admins_exist
  /\ user = NoUser
  /\ \E u \in UsuarioInputs, p \in PasswordInputs :
       LET found == verify_login(u, p)
       IN  IF found # NoUser
           THEN /\ user' = found
                /\ outcome' = OutLogin("ok", found.id, u, p)
                /\ Lookups(PageKeys(FirstPage(found.rol), found.rol))
           ELSE /\ user' = NoUser
                /\ outcome' = OutLogin("Credenciales invalidas o usuario inactivo.", 0, u, p)
                /\ Lookups(PrologueKeys)
  /\ pg_con' = db_query(pg_con, TRUE)
  /\ UNCHANGED <<db, photo_buffer, up, pdf>>

\* the button "Salir": the callback logout() runs, then the script
logout ==
  /\ user # NoUser
  /\ outcome.op # "ensure_schema_or_stop"
  /\ user' = NoUser
  /\ photo_buffer' = <<>>
  /\ pg_con' = db_query(pg_con, TRUE)
  /\ IF SchemaOk
     THEN /\ outcome' = Out("logout", "ok", 0, 0)
          /\ Lookups(PrologueKeys)
     ELSE /\ outcome' = Out("logout", "InFailedSqlTransaction", 0, 0)
          /\ UNCHANGED <<col_udt_cache, catalog_queries>>
  /\ UNCHANGED <<db, up, pdf>>

\* a page is chosen in the sidebar and rendered; a statement of the page that
\* names a column the table does not have raises (UndefinedColumn), after
\* the lookups of the page
navegar ==
  /\ SchemaOk
  /\ admins_exist
  /\ user # NoUser
  /\ \E page \in Pages(user.rol) :
       LET ok == PageKeys(page, user.rol) \subseteq DOMAIN schema
       IN  /\ Lookups(PageKeys(page, user.rol))
           /\ outcome' = Out("navegar", IF ok THEN "" ELSE "UndefinedColumn", 0, 0)
           /\ pg_con' = db_query(pg_con, ok)
  /\ UNCHANGED <<db, user, photo_buffer, up, pdf>>

\* Admin page, tab Usuarios, form "new_user"; an exception of create_user is
\* not caught and ends the run
new_user ==
  /\ SchemaOk
  /\ admins_exist
  /\ user # NoUser /\ user.rol = "admin"
  /\ \/ /\ FaltanCampos
        /\ outcome' = Out("new_user", "Faltan campos.", 0, 0)
        /\ pg_con' = db_query(pg_con, TRUE)
        /\ Lookups(PageKeys("Admin", "admin"))
        /\ UNCHANGED usuarios
     \/ /\ NoCoinciden
        /\ outcome' = Out("new_user", "Passwords no coinciden.", 0, 0)
        /\ pg_con' = db_query(pg_con, TRUE)
        /\ Lookups(PageKeys("Admin", "admin"))
        /\ UNCHANGED usuarios
     \/ \* the INSERT raises UniqueViolation, which nothing catches
        /\ \E usuario \in ValidUsuarios : UsuarioTaken(usuario)
        /\ outcome' = Out("new_user", "UniqueViolation", 0, 0)
        /\ pg_con' = db_exec(db_query(pg_con, TRUE), FALSE)
        /\ Lookups(PageKeys("Admin", "admin") \cup CreateUserKeys)
        /\ UNCHANGED usuarios
     \/ \E usuario \in ValidUsuarios, nombre \in ValidNombres, rol \in Roles,
           pw1 \in ValidPasswords, salt \in Salts :
          /\ ~UsuarioTaken(usuario)
          /\ Len(usuarios) < MaxUsuarios
          /\ usuarios' = Append(usuarios, UserRow(usuario, nombre, rol, pw1, salt))
          /\ outcome' = Out("new_user", "Usuario creado.", Len(usuarios) + 1, 0)
          /\ pg_con' = db_query(db_exec(db_query(pg_con, TRUE), TRUE), TRUE)
          /\ Lookups(PageKeys("Admin", "admin") \cup CreateUserKeys)
  /\ UNCHANGED <<schema, clientes, locales, asignaciones, reportes, fotos, user,
                 photo_buffer, up, pdf>>

(***************************************************************************)
(* The session of the login, bootstrap and user forms.  The database       *)
(* starts with no user, with one admin row, or with an active admin and a  *)
(* worker; a row's activo is any value of the column's type.  The stored   *)
(* rows are those create_user writes for the password "a".                 *)
(***************************************************************************)
SeedSalt == <<7, 7>>

SeedUser(usuario, rol, activo) ==
  [UserRow(usuario, <<"N">>, rol, <<"a">>, SeedSalt) EXCEPT !.activo = activo]

SeedUsuarios ==
  {<<>>}
  \cup {<<SeedUser(<<"a">>, "admin", v)>> :
          v \in ActivoDomain(schema[<<"usuarios", "activo">>])}
  \cup {<<SeedUser(<<"a">>, "admin", _activo_value("usuarios")),
          SeedUser(<<"b">>, "trabajador", v)>> :
          v \in ActivoDomain(schema[<<"usuarios", "activo">>])}

InitSession ==
  /\ schema \in Schemas
  /\ col_udt_cache = EmptyCache
  /\ catalog_queries = QueriesOf(col_udt_cache)
  /\ pg_con = "none"
  /\ user = NoUser
  /\ photo_buffer = <<>>
  /\ up = <<>>
  /\ pdf = NoPdf
  /\ outcome = Out("init", "", 0, 0)

Init ==
  /\ InitSession
  /\ usuarios \in SeedUsuarios
  /\ clientes = <<>>
  /\ locales = <<>>
  /\ asignaciones = <<>>
  /\ reportes = <<>>
  /\ fotos = <<>>

Next ==
  \/ bootstrap_admin
  \/ login
  \/ logout
  \/ navegar
  \/ new_user
  \/ ensure_schema_or_stop

Spec == Init /\ [][Next]_vars

(***************************************************************************)
(* The session of the users of a deployment, seen for its catalog lookups: *)
(* an active admin and an active worker log in, choose pages and log out.  *)
(***************************************************************************)
InitCache ==
  /\ schema \in Schemas \cup {SchemaUnknown}
  /\ col_udt_cache = EmptyCache
  /\ catalog_queries = QueriesOf(col_udt_cache)
  /\ pg_con = "none"
  /\ usuarios = <<SeedUser(<<"a">>, "admin", _activo_value("usuarios")),
                  SeedUser(<<"b">>, "trabajador", _activo_value("usuarios"))>>
  /\ clientes = <<>>
  /\ locales = <<>>
  /\ asignaciones = <<>>
  /\ reportes = <<>>
  /\ fotos = <<>>
  /\ user = NoUser
  /\ photo_buffer = <<>>
  /\ up = <<>>
  /\ pdf = NoPdf
  /\ outcome = Out("init", "", 0, 0)

NextCache ==
  \/ login
  \/ logout
  \/ navegar
  \/ ensure_schema_or_stop

SpecCache == InitCache /\ [][NextCache]_vars

(***************************************************************************)
(* Admin page: the forms new_cliente, new_local and assign.  The optional  *)
(* columns of locales (codigo_local, direccion, ciudad) are left out.      *)
(***************************************************************************)
ClienteInputs == {<<"A">>, <<" ">>}
LocalInputs == {<<"B", " ">>}

ClienteRow(nombre) ==
  [nombre |-> Strip(nombre),
   activo |-> _activo_value("clientes"),
   creado_en |-> _now_for("clientes", "creado_en")]

LocalRow(cliente_id, nombre_local) ==
  [cliente_id |-> cliente_id,
   nombre_local |-> Strip(nombre_local),
   activo |-> _activo_value("locales"),
   creado_en |-> _now_for("locales", "creado_en")]

AsignacionRow(usuario_id, local_id) ==
  [usuario_id |-> usuario_id,
   local_id |-> local_id,
   activo |-> _activo_value("asignaciones"),
   asignado_en |-> _now_for("asignaciones", "asignado_en")]

\* the rows of asignaciones for a pair
AsignacionesDe(usuario_id, local_id) ==
  {i \in 1..Len(asignaciones) :
     asignaciones[i].usuario_id = usuario_id /\ asignaciones[i].local_id = local_id}

\* an INSERT that ignores the conflict clause
InsertAsignacionAlways(usuario_id, local_id) ==
  Append(asignaciones, AsignacionRow(usuario_id, local_id))

\* INSERT INTO asignaciones ... ON CONFLICT (usuario_id, local_id) DO NOTHING:
\* the table after the statement
InsertAsignacion(usuario_id, local_id) ==
  IF AsignacionesDe(usuario_id, local_id) # {} THEN asignaciones
  ELSE Append(asignaciones, AsignacionRow(usuario_id, local_id))

AdminPage ==
  /\ SchemaOk
  /\ admins_exist
  /\ user # NoUser /\ user.rol = "admin"

\* tab Clientes, form "new_cliente"
new_cliente ==
  /\ AdminPage
  /\ \E nombre \in ClienteInputs :
       IF Strip(nombre) = <<>>
       THEN /\ outcome' = Out("new_cliente", "Nombre cliente vacio.", 0, 0)
            /\ Lookups(PageKeys("Admin", "admin"))
            /\ UNCHANGED clientes
       ELSE /\ Len(clientes) < MaxClientes
            /\ clientes' = Append(clientes, ClienteRow(nombre))
            /\ outcome' = Out("new_cliente", "Cliente creado.", Len(clientes) + 1, 0)
            /\ Lookups(PageKeys("Admin", "admin")
                            \cup {<<"clientes", "activo">>, <<"clientes", "creado_en">>})
  /\ pg_con' = db_query(db_exec(db_query(pg_con, TRUE), TRUE), TRUE)
  /\ UNCHANGED <<schema, usuarios, locales, asignaciones, reportes, fotos, user,
                 photo_buffer, up, pdf>>

\* tab Locales, form "new_local", shown when get_clientes() is not empty; the
\* select box maps a client's name to the id of one active client of that name
new_local ==
  /\ AdminPage
  /\ get_clientes # {}
  /\ Len(locales) < MaxLocales
  /\ \E cliente_id \in get_clientes, nombre_local \in LocalInputs :
       /\ locales' = Append(locales, LocalRow(cliente_id, nombre_local))
       /\ outcome' = Out("new_local", "Local creado.", Len(locales) + 1, cliente_id)
  /\ Lookups(PageKeys("Admin", "admin")
                  \cup {<<"locales", "activo">>, <<"locales", "creado_en">>})
  /\ pg_con' = db_query(db_exec(db_query(pg_con, TRUE), TRUE), TRUE)
  /\ UNCHANGED <<schema, usuarios, clientes, asignaciones, reportes, fotos, user,
                 photo_buffer, up, pdf>>

\* tab Asignaciones, form "assign", shown when there are active users and stores
assign ==
  /\ AdminPage
  /\ usuarios_activos # {} /\ get_locales # {}
  /\ \E usuario_id \in usuarios_activos, local_id \in get_locales :
       /\ Len(InsertAsignacion(usuario_id, local_id)) <= MaxAsignaciones
       /\ asignaciones' = InsertAsignacion(usuario_id, local_id)
       /\ outcome' = Out("assign", "Asignacion creada (o ya existia).", usuario_id, local_id)
  /\ Lookups(PageKeys("Admin", "admin")
                  \cup {<<"asignaciones", "activo">>, <<"asignaciones", "asignado_en">>})
  /\ pg_con' = db_query(db_exec(db_query(pg_con, TRUE), TRUE), TRUE)
  /\ UNCHANGED <<schema, usuarios, clientes, locales, reportes, fotos, user,
                 photo_buffer, up, pdf>>

(***************************************************************************)
(* The session of an admin on the Admin page.  The database starts with    *)
(* an active admin (the session's user) and an active worker, and with no  *)
(* client, or a client, or a client and a store, or a client, a store and  *)
(* the worker's assignment to it; at most one of these rows has an activo  *)
(* other than the one the forms write.  The admin has logged in and the    *)
(* Admin page has been rendered once.                                      *)
(***************************************************************************)
SeedAdmin == SeedUser(<<"a">>, "admin", _activo_value("usuarios"))

SeedWorker == SeedUser(<<"b">>, "trabajador", _activo_value("usuarios"))

SeedCliente(v) == [ClienteRow(<<"A">>) EXCEPT !.activo = v]

SeedLocal(v) == [LocalRow(1, <<"A">>) EXCEPT !.activo = v]

SeedAsignacion(v) == [AsignacionRow(2, 1) EXCEPT !.activo = v]

ActivoDe(table) == ActivoDomain(schema[<<table, "activo">>])

\* records [c, l, a]: the seeded clientes, locales and asignaciones
SeedChains ==
  LET C == _activo_value("clientes")
      L == _activo_value("locales")
      A == _activo_value("asignaciones")
  IN  {[c |-> <<>>, l |-> <<>>, a |-> <<>>]}
      \cup {[c |-> <<SeedCliente(v)>>, l |-> <<>>, a |-> <<>>] : v \in ActivoDe("clientes")}
      \cup {[c |-> <<SeedCliente(v)>>, l |-> <<SeedLocal(L)>>, a |-> <<>>] :
              v \in ActivoDe("clientes")}
      \cup {[c |-> <<SeedCliente(C)>>, l |-> <<SeedLocal(v)>>, a |-> <<>>] :
              v \in ActivoDe("locales")}
      \cup {[c |-> <<SeedCliente(v)>>, l |-> <<SeedLocal(L)>>, a |-> <<SeedAsignacion(A)>>] :
              v \in ActivoDe("clientes")}
      \cup {[c |-> <<SeedCliente(C)>>, l |-> <<SeedLocal(v)>>, a |-> <<SeedAsignacion(A)>>] :
              v \in ActivoDe("locales")}
      \cup {[c |-> <<SeedCliente(C)>>, l |-> <<SeedLocal(L)>>, a |-> <<SeedAsignacion(v)>>] :
              v \in ActivoDe("asignaciones")}

InitAdmin ==
  /\ schema \in Schemas
  /\ col_udt_cache = PageCache("Admin", "admin")
  /\ catalog_queries = QueriesOf(col_udt_cache)
  /\ pg_con = "intrans"
  /\ usuarios = <<SeedAdmin, SeedWorker>>
  /\ user = [id |-> 1, usuario |-> <<"a">>, nombre |-> <<"N">>, rol |-> "admin"]
  /\ \E seed \in SeedChains :
       /\ clientes = seed.c
       /\ locales = seed.l
       /\ asignaciones = seed.a
  /\ reportes = <<>>
  /\ fotos = <<>>
  /\ photo_buffer = <<>>
  /\ up = <<>>
  /\ pdf = NoPdf
  /\ outcome = Out("init", "", 0, 0)

NextAdmin ==
  \/ new_cliente
  \/ new_local
  \/ assign

SpecAdmin == InitAdmin /\ [][NextAdmin]_vars

(***************************************************************************)
(* Dates.  A datetime.date is <<year, month, day>>; PyDate wraps it as a   *)
(* Python value.  strftime("%Y-%m-%d") pads with zeros.                    *)
(***************************************************************************)
PyDate(d) == [t |-> "date", x |-> d]

DigitChar(n) ==
  CASE n = 0 -> "0" [] n = 1 -> "1" [] n = 2 -> "2" [] n = 3 -> "3" [] n = 4 -> "4"
    [] n = 5 -> "5" [] n = 6 -> "6" [] n = 7 -> "7" [] n = 8 -> "8" [] n = 9 -> "9"

\* n in decimal, padded with zeros to width digits
RECURSIVE ZeroPad(_, _)
ZeroPad(n, width) ==
  IF width = 0 THEN <<>> ELSE Append(ZeroPad(n \div 10, width - 1), DigitChar(n % 10))

\* date.strftime("%Y-%m-%d")
Strftime(d) == ZeroPad(d[1], 4) \o <<"-">> \o ZeroPad(d[2], 2) \o <<"-">> \o ZeroPad(d[3], 2)

\* int() of a run of digits
RECURSIVE ParseInt(_)
ParseInt(s) ==
  IF s = <<>> THEN 0 ELSE 10 * ParseInt(SubSeq(s, 1, Len(s) - 1)) + (Ord(s[Len(s)]) - Ord("0"))

\* datetime.strptime(s, "%Y-%m-%d").date() of a text written by Strftime
Strptime(s) == <<ParseInt(SubSeq(s, 1, 4)), ParseInt(SubSeq(s, 6, 7)), ParseInt(SubSeq(s, 9, 10))>>

\* the value bound for a date: a date for a date column, else its text
_date_for(table, column, value) ==
  IF _col_udt(table, column) = "date"
  THEN IF value.t = "date" THEN value ELSE PyDate(Strptime(value.x))
  ELSE IF value.t = "date" THEN PyStr(Strftime(value.x)) ELSE value

\* a <= b for two dates
DateLeq(a, b) ==
  \/ a[1] < b[1]
  \/ a[1] = b[1] /\ a[2] < b[2]
  \/ a[1] = b[1] /\ a[2] = b[2] /\ a[3] <= b[3]

\* a <= b as PostgreSQL compares two values of a date or of a text column
SqlLeq(a, b) == IF a.t = "date" THEN DateLeq(a.x, b.x) ELSE StrLeq(a.x, b.x)

(***************************************************************************)
(* Images.  The bytes of an image file are three bytes here: the two magic *)
(* bytes of its format and the index of its pixel size in ImageSizes.      *)
(* Image.open raises on anything else (UnidentifiedImageError).            *)
(***************************************************************************)
JpegMagic == <<255, 216>>
PngMagic == <<137, 80>>

\* <<width, height>> in pixels
ImageSizes == <<(<<1000, 500>>), (<<100, 400>>)>>

ImageBytes(magic, size) == Append(magic, size)

JunkBytes == <<0, 1>>

\* Image.open(io.BytesIO(raw)) identifies the file
Decodable(raw) ==
  /\ Len(raw) = 3
  /\ SubSeq(raw, 1, 2) \in {JpegMagic, PngMagic}
  /\ raw[3] \in 1..Len(ImageSizes)

\* img.size of the decoded image
ImageSize(raw) == ImageSizes[raw[3]]

\* the JPEG bytes and the mime type; defined when Decodable(raw), raises otherwise
normalize_image_bytes(raw) ==
  [bytes |-> ImageBytes(JpegMagic, raw[3]), mime |-> "image/jpeg"]

(***************************************************************************)
(* Page "Nuevo reporte".  The page stops before its form when the user has *)
(* no store to report on.                                                  *)
(***************************************************************************)
ReporteRow(local_id, usuario_id, fecha_visita, notas) ==
  [local_id |-> local_id,
   usuario_id |-> usuario_id,
   fecha_visita |-> _date_for("reportes", "fecha_visita", fecha_visita),
   notas |-> Strip(notas),
   creado_en |-> _now_for("reportes", "creado_en")]

FotoRow(reporte_id, nombre_archivo, mime, imagen_bytes, comentario) ==
  [reporte_id |-> reporte_id,
   nombre_archivo |-> nombre_archivo,
   mime |-> mime,
   imagen_bytes |-> PyBytes(imagen_bytes),
   comentario |-> PyStr(Strip(comentario)),
   creado_en |-> _now_for("fotos", "creado_en")]

\* INSERT INTO reportes ... RETURNING id
insert_reporte(local_id, usuario_id, fecha_visita, notas) ==
  Append(reportes, ReporteRow(local_id, usuario_id, fecha_visita, notas))

\* the table fotos after insert_foto for each photo of the buffer, in order
RECURSIVE InsertFotos(_, _, _)
InsertFotos(tabla, rid, buffer) ==
  IF buffer = <<>> THEN tabla
  ELSE LET ph == Head(buffer)
       IN  InsertFotos(Append(tabla, FotoRow(rid, ph.nombre_archivo, ph.mime, ph.bytes,
                                             ph.comentario)),
                       rid, Tail(buffer))

\* a PNG picture and a file that is no image
UploadFiles ==
  {[nombre_archivo |-> <<"f">>, raw |-> ImageBytes(PngMagic, 1)],
   [nombre_archivo |-> <<"f">>, raw |-> JunkBytes]}

ComentarioInputs == {<<"c", " ">>}
NotasInputs == {<<" ">>}
Hoy == <<2024, 1, 2>>
FechaInputs == {PyDate(Hoy)}

BufferEntry(f, comentario) ==
  LET n == normalize_image_bytes(f.raw)
  IN  [nombre_archivo |-> f.nombre_archivo, mime |-> n.mime, bytes |-> n.bytes,
       comentario |-> comentario]

\* the number of files of the batch handled before normalize_image_bytes raises
RECURSIVE Handled(_)
Handled(files) ==
  IF files = <<>> \/ ~Decodable(Head(files).raw) THEN 0 ELSE 1 + Handled(Tail(files))

\* the stores offered by the select box "Local"
LocalesDe(u) == IF u.rol = "admin" THEN get_locales ELSE get_locales_asignados(u.id)

NuevoReportePage ==
  /\ SchemaOk
  /\ admins_exist
  /\ user # NoUser
  /\ LocalesDe(user) # {}

\* the widget "Subir fotos" gets a new selection of files
subir_fotos ==
  /\ NuevoReportePage
  /\ \E n \in 0..MaxUpload : \E files \in [1..n -> UploadFiles] :
       /\ up' = files
       /\ outcome' = Out("subir_fotos", "", n, 0)
  /\ Lookups(PageKeys("Nuevo reporte", user.rol))
  /\ pg_con' = db_query(pg_con, TRUE)
  /\ UNCHANGED <<db, user, photo_buffer, pdf>>

\* the button "Agregar al buffer": the loop appends to the session's list file
\* by file; an exception of normalize_image_bytes is not caught and ends the run
agregar_al_buffer ==
  /\ NuevoReportePage
  /\ \E comentario \in ComentarioInputs :
       LET added == Handled(up)
       IN  /\ Len(photo_buffer) + added <= MaxUpload
           /\ photo_buffer' =
                photo_buffer \o [i \in 1..added |-> BufferEntry(up[i], comentario)]
           /\ outcome' =
                Out("agregar_al_buffer",
                    IF added < Len(up) THEN "UnidentifiedImageError"
                    ELSE IF added > 0 THEN "Agregadas" ELSE "No agregaste fotos.",
                    added, 0)
  /\ Lookups(PageKeys("Nuevo reporte", user.rol))
  /\ pg_con' = db_query(pg_con, TRUE)
  /\ UNCHANGED <<db, user, up, pdf>>

\* insert_foto raises for the k-th photo, nothing of it is committed
FotosRolledBack(tabla, rid, buffer, k) == tabla

\* the table fotos when insert_foto raises for the k-th photo of the buffer:
\* each earlier call has committed its row
FotosCommitted(tabla, rid, buffer, k) == InsertFotos(tabla, rid, SubSeq(buffer, 1, k - 1))

GuardarKeys ==
  PageKeys("Nuevo reporte", user.rol)
  \cup {<<"reportes", "creado_en">>, <<"reportes", "fecha_visita">>}

\* the button "Guardar reporte", shown while the buffer is not empty.  No
\* exception is caught: the INSERT of insert_reporte may raise, or the INSERT
\* of insert_foto for the k-th photo, and the run ends there
guardar_reporte ==
  /\ NuevoReportePage
  /\ photo_buffer # <<>>
  /\ Len(reportes) < MaxReportes
  /\ Len(fotos) + Len(photo_buffer) <= MaxFotos
  /\ \E local_id \in LocalesDe(user), fecha \in FechaInputs, notas \in NotasInputs :
       LET rid == Len(reportes) + 1
       IN  \/ /\ UNCHANGED <<reportes, fotos, photo_buffer>>
              /\ outcome' = Out("guardar_reporte", "DatabaseError", 0, 0)
              /\ Lookups(GuardarKeys)
              /\ pg_con' = db_exec(db_query(pg_con, TRUE), FALSE)
           \/ \E k \in 1..Len(photo_buffer) :
                /\ reportes' = insert_reporte(local_id, user.id, fecha, notas)
                /\ fotos' = FotosCommitted(fotos, rid, photo_buffer, k)
                /\ UNCHANGED photo_buffer
                /\ outcome' = Out("guardar_reporte", "DatabaseError", rid, k)
                /\ Lookups(GuardarKeys \cup {<<"fotos", "creado_en">>})
                /\ pg_con' = db_exec(db_exec(db_query(pg_con, TRUE), TRUE), FALSE)
           \/ /\ reportes' = insert_reporte(local_id, user.id, fecha, notas)
              /\ fotos' = InsertFotos(fotos, rid, photo_buffer)
              /\ photo_buffer' = <<>>
              /\ outcome' = Out("guardar_reporte", "Reporte guardado", rid, 0)
              /\ Lookups(GuardarKeys \cup {<<"fotos", "creado_en">>})
              /\ pg_con' = db_exec(db_query(pg_con, TRUE), TRUE)
  /\ UNCHANGED <<schema, usuarios, clientes, locales, asignaciones, user, up, pdf>>

(***************************************************************************)
(* The session of a user on the page "Nuevo reporte": the admin or the     *)
(* worker, with one client, one store and the worker's assignment to it.   *)
(***************************************************************************)
SessionUser(id) ==
  [id |-> id, usuario |-> usuarios[id].usuario, nombre |-> usuarios[id].nombre_completo,
   rol |-> usuarios[id].rol]

InitUpload ==
  /\ schema \in Schemas
  /\ \E rol \in Roles :
       /\ col_udt_cache = PageCache("Nuevo reporte", rol)
       /\ catalog_queries = QueriesOf(col_udt_cache)
       /\ usuarios = <<SeedAdmin, SeedWorker>>
       /\ user \in {SessionUser(id) : id \in {i \in 1..Len(usuarios) : usuarios[i].rol = rol}}
  /\ pg_con = "intrans"
  /\ clientes = <<SeedCliente(_activo_value("clientes"))>>
  /\ locales = <<SeedLocal(_activo_value("locales"))>>
  /\ asignaciones = <<SeedAsignacion(_activo_value("asignaciones"))>>
  /\ reportes = <<>>
  /\ fotos = <<>>
  /\ photo_buffer = <<>>
  /\ up = <<>>
  /\ pdf = NoPdf
  /\ outcome = Out("init", "", 0, 0)

NextUpload ==
  \/ subir_fotos
  \/ agregar_al_buffer
  \/ guardar_reporte
  \/ ensure_schema_or_stop

SpecUpload == InitUpload /\ [][NextUpload]_vars

(***************************************************************************)
(* build_pdf_cliente.  The document is the sequence of the canvas calls:   *)
(* records [op, rid, k, y, h] with op one of "cover", "notice", "header",  *)
(* "image", "caption", "placeholder", "showPage" and "save"; rid is the    *)
(* report, k the photo's position in it (from 1), y the height the item is *)
(* drawn at and h the height of an image.  Lengths are whole points: A4 is *)
(* 595.28 x 841.89 points.                                                 *)
(***************************************************************************)
W == 595
H == 842

Op(op, rid, k, y, h) == [op |-> op, rid |-> rid, k |-> k, y |-> y, h |-> h]

\* the size <<dw, dh>> of a picture of iw x ih pixels scaled into mw x mh
_fit(iw, ih, mw, mh) ==
  IF iw <= 0 \/ ih <= 0 THEN <<mw, mh>>
  ELSE IF mw * ih <= mh * iw THEN <<mw, (ih * mw) \div iw>>
  ELSE <<(iw * mh) \div ih, mh>>

\* ORDER BY r.id alone
OrderedById(a, b) == a <= b

\* ORDER BY r.fecha_visita, l.nombre_local, r.id: row a is not after row b
OrderedLeq(a, b) ==
  LET fa == reportes[a].fecha_visita
      fb == reportes[b].fecha_visita
      na == locales[reportes[a].local_id].nombre_local
      nb == locales[reportes[b].local_id].nombre_local
  IN  IF fa # fb THEN SqlLeq(fa, fb)
      ELSE IF na # nb THEN StrLeq(na, nb)
      ELSE a <= b

RECURSIVE SortRows(_)
SortRows(S) ==
  IF S = {} THEN <<>>
  ELSE LET m == CHOOSE x \in S : \A y \in S : OrderedLeq(x, y)
       IN  <<m>> \o SortRows(S \ {m})

\* the ids of the rows of the query on reportes, locales and usuarios, in order
ReportesQuery(cliente_id, desde_db, hasta_db) ==
  SortRows({r \in 1..Len(reportes) :
              /\ reportes[r].local_id \in 1..Len(locales)
              /\ reportes[r].usuario_id \in 1..Len(usuarios)
              /\ locales[reportes[r].local_id].cliente_id = cliente_id
              /\ SqlLeq(desde_db, reportes[r].fecha_visita)
              /\ SqlLeq(reportes[r].fecha_visita, hasta_db)})

\* SELECT ... FROM fotos WHERE reporte_id = rid ORDER BY id
FotosQuery(rid) == SelectSeq(fotos, LAMBDA f : f.reporte_id = rid)

\* (f.get("comentario") or "").strip()
Caption(f) == IF f.comentario = PyNone THEN <<>> ELSE Strip(f.comentario.x)

\* the canvas calls of the loop over a report's photos from index i (from 0)
\* on, with the cursor at y
RECURSIVE RenderFotos(_, _, _, _)
RenderFotos(rid, fs, i, y) ==
  IF i >= Len(fs) THEN <<>>
  ELSE LET f == fs[i + 1]
           raw == _as_bytes(f.imagen_bytes)
       IN  IF Decodable(raw)
           THEN LET size == ImageSize(raw)
                    dh == _fit(size[1], size[2], W - 80, (H - 170) \div 2)[2]
                    brk == (i % 2) = 1 /\ i < Len(fs) - 1
                IN  <<Op("image", rid, i + 1, y, dh)>>
                    \o (IF Caption(f) # <<>>
                        THEN <<Op("caption", rid, i + 1, y - dh - 12, 0)>> ELSE <<>>)
                    \o (IF brk THEN <<Op("showPage", rid, i + 1, 0, 0)>> ELSE <<>>)
                    \o RenderFotos(rid, fs, i + 1, IF brk THEN H - 50 ELSE y - dh - 30)
           ELSE <<Op("placeholder", rid, i + 1, y, 0)>>
                \o RenderFotos(rid, fs, i + 1, y - 20)

\* the canvas calls for the reports rs, in order
RECURSIVE RenderReportes(_)
RenderReportes(rs) ==
  IF rs = <<>> THEN <<>>
  ELSE LET rid == Head(rs)
       IN  <<Op("header", rid, 0, H - 50, 0)>>
           \o RenderFotos(rid, FotosQuery(rid), 0, H - 110)
           \o <<Op("showPage", rid, 0, 0, 0)>>
           \o RenderReportes(Tail(rs))

\* build_pdf_cliente without the branch "if not reportes"
BuildPdfWithoutNotice(cliente_id, desde, hasta) ==
  LET rs == ReportesQuery(cliente_id,
                          _date_for("reportes", "fecha_visita", desde),
                          _date_for("reportes", "fecha_visita", hasta))
  IN  [doc |-> <<Op("cover", 0, 0, H - 60, 0), Op("showPage", 0, 0, 0, 0)>>
               \o RenderReportes(rs) \o <<Op("save", 0, 0, 0, 0)>>,
       foto_queries |-> Len(rs)]

\* the document and the number of queries on fotos
build_pdf_cliente(cliente_id, desde, hasta) ==
  LET desde_db == _date_for("reportes", "fecha_visita", desde)
      hasta_db == _date_for("reportes", "fecha_visita", hasta)
      rs == ReportesQuery(cliente_id, desde_db, hasta_db)
      cover == <<Op("cover", 0, 0, H - 60, 0), Op("showPage", 0, 0, 0, 0)>>
  IN  IF rs = <<>>
      THEN [doc |-> cover \o <<Op("notice", 0, 0, H - 60, 0), Op("save", 0, 0, 0, 0)>>,
            foto_queries |-> 0]
      ELSE [doc |-> cover \o RenderReportes(rs) \o <<Op("save", 0, 0, 0, 0)>>,
            foto_queries |-> Len(rs)]

(***************************************************************************)
(* Page "PDF por cliente", and build_pdf_cliente called with the id of no  *)
(* client.                                                                 *)
(***************************************************************************)
Dates == {<<2024, 1, 1>>, <<2024, 1, 2>>, <<2024, 1, 3>>}

PdfOf(cid, d1, d2) ==
  LET built == build_pdf_cliente(cid, PyDate(d1), PyDate(d2))
  IN  [ready |-> TRUE, cid |-> cid, desde |-> d1, hasta |-> d2, doc |-> built.doc,
       foto_queries |-> built.foto_queries]

PdfKeys ==
  PageKeys("PDF por cliente", "admin") \cup {<<"reportes", "fecha_visita">>}

\* the button "Generar PDF", for the client and the dates chosen on the page;
\* the page stops before it when get_clientes() is empty
generar_pdf ==
  /\ AdminPage
  /\ pdf.cid \in get_clientes
  /\ pdf' = PdfOf(pdf.cid, pdf.desde, pdf.hasta)
  /\ outcome' = Out("generar_pdf", "PDF listo para descargar.", pdf.cid, 0)
  /\ Lookups(PdfKeys)
  /\ pg_con' = db_query(pg_con, TRUE)
  /\ UNCHANGED <<db, user, photo_buffer, up>>

\* build_pdf_cliente(cliente_id, desde, hasta) for a cliente_id that is no row's id
build_pdf_sin_cliente ==
  /\ AdminPage
  /\ pdf.cid \notin 1..Len(clientes)
  /\ pdf.desde \in Dates /\ pdf.hasta \in Dates
  /\ pdf' = PdfOf(pdf.cid, pdf.desde, pdf.hasta)
  /\ outcome' = Out("build_pdf_cliente", "", pdf.cid, 0)
  /\ Lookups(PdfKeys)
  /\ pg_con' = db_query(pg_con, TRUE)
  /\ UNCHANGED <<db, user, photo_buffer, up>>

(***************************************************************************)
(* The session of an admin on the page "PDF por cliente".  The database    *)
(* has two clients and two stores, "B" of the first client and "A" of the  *)
(* first or the second, and either                                         *)
(*   - up to MaxReportes reports of the worker, on any store and date,     *)
(*     without photos, or                                                  *)
(*   - a report on each store, the first with up to MaxFotos photos: a     *)
(*     picture as insert_foto writes it, a picture kept as hex text with   *)
(*     no comment, or a row whose imagen_bytes is NULL.                    *)
(* The arguments of build_pdf_cliente are drawn here: the client chosen    *)
(* in the select box, or the id of no client, and the two dates.           *)
(***************************************************************************)
SeedReporte(local_id, d) == ReporteRow(local_id, 2, PyDate(d), <<>>)

SeedFotos(rid) ==
  LET foto == FotoRow(rid, <<"f">>, "image/jpeg", ImageBytes(JpegMagic, 1), <<"c", " ">>)
  IN  {foto,
       [foto EXCEPT !.imagen_bytes = PyStr(BytesHex(ImageBytes(JpegMagic, 2))),
                    !.comentario = PyNone],
       [foto EXCEPT !.imagen_bytes = PyNone]}

InitPdf ==
  /\ schema \in {SchemaNative, SchemaLegacy}
  /\ col_udt_cache = PageCache("PDF por cliente", "admin")
  /\ catalog_queries = QueriesOf(col_udt_cache)
  /\ pg_con = "intrans"
  /\ usuarios = <<SeedAdmin, SeedWorker>>
  /\ user = SessionUser(1)
  /\ clientes = <<ClienteRow(<<"A">>), ClienteRow(<<"B">>)>>
  /\ \/ /\ \E c \in 1..2 : locales = <<LocalRow(1, <<"B">>), LocalRow(c, <<"A">>)>>
        /\ \E n \in 0..MaxReportes :
             reportes \in [1..n -> {SeedReporte(l, d) : l \in 1..2, d \in Dates}]
        /\ fotos = <<>>
     \/ /\ locales = <<LocalRow(1, <<"B">>), LocalRow(1, <<"A">>)>>
        /\ reportes = <<SeedReporte(1, Hoy), SeedReporte(2, Hoy)>>
        /\ \E n \in 0..MaxFotos : \E fs \in [1..n -> SeedFotos(1)] :
             fotos = fs \o <<FotoRow(2, <<"f">>, "image/jpeg", ImageBytes(JpegMagic, 1), <<>>)>>
  /\ asignaciones = <<>>
  /\ photo_buffer = <<>>
  /\ up = <<>>
  /\ \E cid \in 1..(Len(clientes) + 1), d1 \in Dates, d2 \in Dates :
       pdf = [NoPdf EXCEPT !.cid = cid, !.desde = d1, !.hasta = d2]
  /\ outcome = Out("init", "", 0, 0)

NextPdf ==
  \/ generar_pdf
  \/ build_pdf_sin_cliente

SpecPdf == InitPdf /\ [][NextPdf]_vars

(***************************************************************************)
(* Properties of the login, bootstrap and user forms (checked under Spec). *)
(***************************************************************************)
InactiveValues == {"false", "0", "null"}

\* the identity record verify_login returns for row i
Identity(i) ==
  [id |-> i, usuario |-> usuarios[i].usuario, nombre |-> usuarios[i].nombre_completo,
   rol |-> usuarios[i].rol]

\* C1: a stored user whose activo is false, 0 or NULL is never authenticated:
\* verify_login returns None for its name with every password, the right one
\* included, and the session's user is never that row.
C1_InactiveNeverAuthenticates ==
  /\ \A i \in 1..Len(usuarios) :
       usuarios[i].activo \in InactiveValues =>
         \A u \in UsuarioInputs, p \in PasswordInputs \cup {usuarios[i].g.password} :
           Lower(Strip(u)) = usuarios[i].usuario => verify_login(u, p) = NoUser
  /\ user # NoUser => usuarios[user.id].activo \notin InactiveValues

\* C1 witness: the login form was submitted with the name and the right
\* password of an inactive row, and was refused.
C1_Witness ==
  /\ outcome.op = "login"
  /\ outcome.result # "ok"
  /\ user = NoUser
  /\ \E i \in 1..Len(usuarios) :
       /\ usuarios[i].activo \in InactiveValues
       /\ Lower(Strip(outcome.u)) = usuarios[i].usuario
       /\ outcome.p = usuarios[i].g.password

\* C2: for an active account created by create_user(u, ..., p) with salt s,
\* verify_login(u', q) returns the account's identity record exactly when
\* strip/lower(u') = strip/lower(u) and hash_password(q, s) = hash_password(p, s),
\* and None otherwise, whether salt and hash are stored as bytea or as hex text.
C2_LoginIffHashMatches ==
  \A u \in UsuarioInputs, q \in PasswordInputs :
    LET found == verify_login(u, q)
    IN  /\ found # NoUser => \E i \in 1..Len(usuarios) : found = Identity(i)
        /\ \A i \in 1..Len(usuarios) :
             usuarios[i].activo \in {"true", "1"} =>
               ( found = Identity(i)
                 <=> /\ Lower(Strip(u)) = Lower(Strip(usuarios[i].g.usuario))
                     /\ hash_password(q, usuarios[i].g.salt)
                          = hash_password(usuarios[i].g.password, usuarios[i].g.salt) )

\* C2 witness: a user created through a form, whose hash is stored as hex
\* text, has logged in with a password that is not the one of its creation
\* but has the same hash.
C2_Witness ==
  /\ outcome.op = "login"
  /\ outcome.result = "ok"
  /\ user # NoUser
  /\ usuarios[user.id].pw_hash.t = "str"
  /\ usuarios[user.id].g.salt # SeedSalt
  /\ outcome.p # usuarios[user.id].g.password
  /\ outcome.u # usuarios[user.id].usuario

\* C6: a database call that raised is not terminal to the session: after a
\* run in which a statement raised, the session's connection still carries
\* out the next statement.
C6_FailureNotTerminalToSession ==
  outcome.result \in {"UniqueViolation", "No se pudo crear el admin"} => SchemaOk

(***************************************************************************)
(* Properties of the Admin page (checked under SpecAdmin).                 *)
(***************************************************************************)
\* a step in which the form "assign" is submitted for the pair <<u, l>>
AssignStep(u, l) ==
  /\ outcome'.op = "assign"
  /\ outcome'.a = u
  /\ outcome'.b = l

AssignPairs == (1..MaxUsuarios) \X (1..(MaxLocales + 1))

\* C7 as stated: after the form "assign" has been submitted for a pair, once
\* or many times, asignaciones holds exactly one row for the pair and that
\* row is active; a submission for a pair that has a row changes no row.
C7_AssignLeavesOneActiveRow ==
  /\ [](outcome.op = "assign" =>
          /\ Cardinality(AsignacionesDe(outcome.a, outcome.b)) = 1
          /\ \A i \in AsignacionesDe(outcome.a, outcome.b) :
               Activo("asignaciones", asignaciones[i].activo))
  /\ [][\A pair \in AssignPairs :
          AssignStep(pair[1], pair[2]) /\ AsignacionesDe(pair[1], pair[2]) # {}
            => asignaciones' = asignaciones]_vars

\* C7 amended: after the form "assign" has been submitted for a pair, once or
\* many times, asignaciones holds exactly one row for the pair; a submission
\* for a pair without a row appends one active row, and a submission for a
\* pair that has a row, active or not, changes no row.
C7_AssignIdempotent ==
  /\ [](outcome.op = "assign" =>
          Cardinality(AsignacionesDe(outcome.a, outcome.b)) = 1)
  /\ [][\A pair \in AssignPairs :
          AssignStep(pair[1], pair[2]) =>
            IF AsignacionesDe(pair[1], pair[2]) # {}
            THEN asignaciones' = asignaciones
            ELSE /\ Len(asignaciones') = Len(asignaciones) + 1
                 /\ SubSeq(asignaciones', 1, Len(asignaciones)) = asignaciones
                 /\ asignaciones'[Len(asignaciones')].usuario_id = pair[1]
                 /\ asignaciones'[Len(asignaciones')].local_id = pair[2]
                 /\ SqlWhere(IF schema[<<"asignaciones", "activo">>] = "bool"
                             THEN "IS TRUE" ELSE "COALESCE(col,0)=1",
                             schema[<<"asignaciones", "activo">>],
                             asignaciones'[Len(asignaciones')].activo) = "yes"]_vars

\* C7 witness: the form was submitted for a pair created by an earlier
\* submission, next to a row of another pair, and nothing was added.
C7_Witness ==
  /\ outcome.op = "assign"
  /\ Len(asignaciones) = 2
  /\ AsignacionesDe(outcome.a, outcome.b) = {1}
  /\ outcome.a = 1
  /\ col_udt_cache[<<"asignaciones", "asignado_en">>] # NotCached

\* C8: for every table, _activo_value gives True for a boolean activo column
\* and 1 otherwise; a row written with it satisfies the predicate of
\* _activo_where on a column of that type, and a row whose activo is NULL
\* does not: get_clientes, get_locales, get_locales_asignados and
\* admins_exist return no such row, and return the rows the forms write.
C8_ActivoCoercion ==
  /\ \A t \in Tables :
       LET udt == schema[<<t, "activo">>]
       IN  /\ _activo_value(t) = (IF udt = "bool" THEN "true" ELSE "1")
           /\ SqlWhere(_activo_where(t), udt, _activo_value(t)) = "yes"
           /\ \A v \in ActivoDomain(udt) : SqlWhere(_activo_where(t), udt, v) # "error"
           /\ SqlWhere(_activo_where(t), udt, "null") = "no"
  /\ \A i \in get_clientes : clientes[i].activo # "null"
  /\ \A i \in get_locales :
       locales[i].activo # "null" /\ clientes[locales[i].cliente_id].activo # "null"
  /\ \A u \in 1..Len(usuarios) : \A l \in get_locales_asignados(u) :
       /\ l \in get_locales
       /\ \E a \in AsignacionesDe(u, l) : asignaciones[a].activo # "null"
  /\ admins_exist =>
       \E i \in 1..Len(usuarios) : usuarios[i].rol = "admin" /\ usuarios[i].activo # "null"
  /\ outcome.op = "new_cliente" /\ outcome.a # 0 => outcome.a \in get_clientes
  /\ outcome.op = "new_local" => outcome.a \in get_locales

\* C8 witness: a client written by the form is listed next to a client row
\* whose activo is NULL, which is not, on a boolean column.
C8_Witness ==
  /\ outcome.op = "new_cliente"
  /\ outcome.a = 2
  /\ schema[<<"clientes", "activo">>] = "bool"
  /\ clientes[1].activo = "null"
  /\ get_clientes = {2}

(***************************************************************************)
(* Properties of the page "Nuevo reporte" (checked under SpecUpload).      *)
(***************************************************************************)
\* the files of a batch that Image.open can identify, in order
DecodableFiles(files) == SelectSeq(files, LAMBDA f : Decodable(f.raw))

\* C5: "Agregar al buffer" skips a file that normalize_image_bytes cannot
\* decode: the run does not abort, and exactly the decodable files of the
\* batch, those before and those after it, are appended to photo_buffer.
C5_UndecodableFileSkipped ==
  [][outcome'.op = "agregar_al_buffer" =>
       /\ outcome'.result # "UnidentifiedImageError"
       /\ \E comentario \in ComentarioInputs :
            photo_buffer' =
              photo_buffer \o [i \in 1..Len(DecodableFiles(up)) |->
                                 BufferEntry(DecodableFiles(up)[i], comentario)]]_vars

(***************************************************************************)
(* Properties of build_pdf_cliente (checked under SpecPdf).                *)
(***************************************************************************)
\* the calendar date of a stored fecha_visita
FechaDe(r) ==
  IF reportes[r].fecha_visita.t = "date" THEN reportes[r].fecha_visita.x
  ELSE Strptime(reportes[r].fecha_visita.x)

\* the reports of the stores of client cid dated from d1 to d2, both included
EnRango(cid, d1, d2) ==
  {r \in 1..Len(reportes) :
     /\ locales[reportes[r].local_id].cliente_id = cid
     /\ DateLeq(d1, FechaDe(r))
     /\ DateLeq(FechaDe(r), d2)}

\* report a comes strictly before report b by (fecha_visita, nombre_local, id)
Antes(a, b) ==
  LET na == locales[reportes[a].local_id].nombre_local
      nb == locales[reportes[b].local_id].nombre_local
  IN  \/ FechaDe(a) # FechaDe(b) /\ DateLeq(FechaDe(a), FechaDe(b))
      \/ FechaDe(a) = FechaDe(b) /\ na # nb /\ StrLeq(na, nb)
      \/ FechaDe(a) = FechaDe(b) /\ na = nb /\ a < b

\* the reports of the document's sections, in the document's order
Secciones(doc) ==
  LET hs == SelectSeq(doc, LAMBDA o : o.op = "header")
  IN  [i \in 1..Len(hs) |-> hs[i].rid]

\* the number of the page that doc[i] is drawn on (from 0)
PageOf(doc, i) == Cardinality({j \in 1..(i - 1) : doc[j].op = "showPage"})

\* where the k-th photo of report rid is drawn, as a picture or a placeholder
ItemOf(doc, rid, k) ==
  CHOOSE i \in 1..Len(doc) :
    doc[i].rid = rid /\ doc[i].k = k /\ doc[i].op \in {"image", "placeholder"}

\* C3: in a report with n photos a new page starts after the k-th photo
\* exactly when k is even and k < n; a page break follows the last photo of
\* the report, and every report's header is the first item of its page.
C3_PageBreakAfterEverySecondPhoto ==
  pdf.ready =>
    \A s \in 1..Len(Secciones(pdf.doc)) :
      LET rid == Secciones(pdf.doc)[s]
          n == Len(FotosQuery(rid))
          h == CHOOSE i \in 1..Len(pdf.doc) :
                 pdf.doc[i].op = "header" /\ pdf.doc[i].rid = rid
      IN  /\ pdf.doc[h - 1].op = "showPage"
          /\ \A k \in 1..(n - 1) :
               PageOf(pdf.doc, ItemOf(pdf.doc, rid, k + 1))
                 = PageOf(pdf.doc, ItemOf(pdf.doc, rid, k)) + (IF k % 2 = 0 THEN 1 ELSE 0)
          /\ \E e \in (h + 1)..Len(pdf.doc) :
               /\ pdf.doc[e] = Op("showPage", rid, 0, 0, 0)
               /\ pdf.doc[e + 1].op \in {"header", "save"}
               /\ PageOf(pdf.doc, e) = PageOf(pdf.doc, h) + (IF n = 0 THEN 0 ELSE (n - 1) \div 2)

\* C4: a photo that cannot be rendered gets a placeholder, the photos after
\* it are still processed, and the bookkeeping goes on as for a drawn item:
\* the cursor moves down, and after an even position with photos remaining
\* the next item starts a new page at the top margin.
C4_FailedPhotoKeepsBookkeeping ==
  pdf.ready =>
    \A s \in 1..Len(Secciones(pdf.doc)) :
      LET rid == Secciones(pdf.doc)[s]
          n == Len(FotosQuery(rid))
      IN  /\ \A k \in 1..n : \E i \in 1..Len(pdf.doc) :
               pdf.doc[i].rid = rid /\ pdf.doc[i].k = k
               /\ pdf.doc[i].op \in {"image", "placeholder"}
          /\ \A k \in 1..(n - 1) :
               LET i == ItemOf(pdf.doc, rid, k)
                   j == ItemOf(pdf.doc, rid, k + 1)
               IN  pdf.doc[i].op = "placeholder" =>
                     IF k % 2 = 0
                     THEN /\ PageOf(pdf.doc, j) = PageOf(pdf.doc, i) + 1
                          /\ pdf.doc[j].y = H - 50
                     ELSE /\ PageOf(pdf.doc, j) = PageOf(pdf.doc, i)
                          /\ pdf.doc[j].y < pdf.doc[i].y

\* C9: the document has one section per report of the client's stores dated
\* from desde to hasta, both included, in ascending order of (fecha_visita,
\* nombre_local, id).
C9_SectionsInRangeInOrder ==
  pdf.ready =>
    LET rs == Secciones(pdf.doc)
    IN  /\ {rs[i] : i \in 1..Len(rs)} = EnRango(pdf.cid, pdf.desde, pdf.hasta)
        /\ \A i, j \in 1..Len(rs) : i < j => Antes(rs[i], rs[j])
        /\ pdf = PdfOf(pdf.cid, pdf.desde, pdf.hasta)

\* reports dated 2024-01-03, 2024-01-01, 2024-01-02 for the stores B, A, A,
\* kept as text, are rendered in the order 2024-01-01, 2024-01-02, 2024-01-03
C9_Witness ==
  /\ pdf.ready
  /\ schema[<<"reportes", "fecha_visita">>] = "text"
  /\ Len(reportes) = 3
  /\ [r \in 1..3 |-> FechaDe(r)] = <<(<<2024, 1, 3>>), (<<2024, 1, 1>>), (<<2024, 1, 2>>)>>
  /\ [r \in 1..3 |-> locales[reportes[r].local_id].nombre_local] = <<(<<"B">>), (<<"A">>), (<<"A">>)>>
  /\ Secciones(pdf.doc) = <<2, 3, 1>>

\* C10: when no report of the client is in the range, and when the client
\* id is no row's id, the document is the cover page and the notice "Sin
\* reportes en el rango.": no query on fotos, no header, no photo.
C10_EmptyRangePdf ==
  pdf.ready /\ EnRango(pdf.cid, pdf.desde, pdf.hasta) = {} =>
    /\ [i \in 1..Len(pdf.doc) |-> pdf.doc[i].op] = <<"cover", "showPage", "notice", "save">>
    /\ pdf.foto_queries = 0

\* no client has the id, and the tables hold reports in the range with photos
C10_Witness ==
  /\ pdf.ready
  /\ pdf.cid \notin 1..Len(clientes)
  /\ \E r \in 1..Len(reportes) :
       /\ DateLeq(pdf.desde, FechaDe(r)) /\ DateLeq(FechaDe(r), pdf.hasta)
       /\ FotosQuery(r) # <<>>
  /\ Len(pdf.doc) = 4

\* the positions in doc of the pictures drawn on page p
ImagesOn(doc, p) ==
  {i \in 1..Len(doc) : doc[i].op = "image" /\ PageOf(doc, i) = p}

\* C11: whatever photos fail to render, no page of the document holds more
\* than two pictures, and no picture reaches below the bottom edge of its
\* page (y - dh >= 0).
C11_TwoImagesPerPageOnPage ==
  pdf.ready =>
    /\ \A p \in 0..Len(pdf.doc) : Cardinality(ImagesOn(pdf.doc, p)) <= 2
    /\ \A i \in 1..Len(pdf.doc) :
         pdf.doc[i].op = "image" => pdf.doc[i].y - pdf.doc[i].h >= 0

\* C12: "Guardar reporte" is not atomic.  When insert_foto raises for the
\* k-th photo of the buffer, the report row and the rows of the k-1 photos
\* before it stay in the tables and the buffer keeps all its photos; the
\* buffer is emptied only by a run that has inserted every photo of it.
C12_GuardarNotAtomic ==
  [][outcome'.op = "guardar_reporte" =>
       LET rid == Len(reportes) + 1
           k == outcome'.b
           added == SubSeq(fotos', Len(fotos) + 1, Len(fotos'))
       IN  /\ SubSeq(fotos', 1, Len(fotos)) = fotos
           /\ k >= 1 =>
                /\ Len(reportes') = rid /\ SubSeq(reportes', 1, Len(reportes)) = reportes
                /\ reportes'[rid].usuario_id = user.id
                /\ Len(added) = k - 1
                /\ \A i \in 1..(k - 1) :
                     /\ added[i].reporte_id = rid
                     /\ added[i].imagen_bytes = PyBytes(photo_buffer[i].bytes)
                /\ photo_buffer' = photo_buffer
           /\ photo_buffer' # photo_buffer =>
                /\ photo_buffer' = <<>>
                /\ Len(reportes') = rid
                /\ Len(added) = Len(photo_buffer)
                /\ \A i \in 1..Len(photo_buffer) :
                     /\ added[i].reporte_id = rid
                     /\ added[i].imagen_bytes = PyBytes(photo_buffer[i].bytes)]_vars

\* insert_foto has raised for the third photo of a buffer of three
C12_Witness ==
  /\ outcome.op = "guardar_reporte"
  /\ outcome.result = "DatabaseError"
  /\ outcome.b = 3
  /\ Len(photo_buffer) = 3
  /\ Len(reportes) = outcome.a
  /\ Len(SelectSeq(fotos, LAMBDA f : f.reporte_id = outcome.a)) = 2

(***************************************************************************)
(* Properties of the schema-type cache (checked under SpecCache).          *)
(***************************************************************************)
\* the udt_name of the catalog for a key, "" when the column is missing
TagOf(k) == IF k \in DOMAIN schema THEN schema[k] ELSE ""

\* C13: in a session the catalog is queried at most once per (table, column):
\* the first lookup caches the catalog's tag ("" for a missing column), a
\* cached entry is never rewritten or removed, later calls return it without
\* a query, and a tag the program has no branch for selects the integer /
\* text branch of _activo_value, _now_for and _date_for.
C13_CatalogQueriedOncePerKey ==
  /\ [](\A k \in Keys :
          /\ catalog_queries[k] <= 1
          /\ col_udt_cache[k] = NotCached => catalog_queries[k] = 0
          /\ col_udt_cache[k] # NotCached =>
               /\ catalog_queries[k] = 1
               /\ col_udt_cache[k] = TagOf(k)
               /\ _col_udt(k[1], k[2]) = col_udt_cache[k]
          /\ k[2] = "activo" /\ _col_udt(k[1], k[2]) # "bool" => _activo_value(k[1]) = "1"
          /\ _col_udt(k[1], k[2]) \notin {"timestamp", "timestamptz", "date"} =>
               _now_for(k[1], k[2]) = "str"
          /\ _col_udt(k[1], k[2]) # "date" =>
               \A d \in Dates : _date_for(k[1], k[2], PyDate(d)) = PyStr(Strftime(d)))
  /\ [][\A k \in Keys :
          col_udt_cache[k] # NotCached =>
            /\ col_udt_cache'[k] = col_udt_cache[k]
            /\ catalog_queries'[k] = catalog_queries[k]]_vars

\* after a login and a page, both of which read usuarios.activo, the
\* catalog has been queried once for it; the missing column is cached as ""
C13_Witness ==
  /\ outcome.op = "navegar"
  /\ col_udt_cache[<<"usuarios", "activo">>] = "int2"
  /\ catalog_queries[<<"usuarios", "activo">>] = 1
  /\ col_udt_cache[<<"reportes", "fecha_visita">>] = ""
  /\ catalog_queries[<<"reportes", "fecha_visita">>] = 1

(***************************************************************************)
(* Bootstrap gating (checked under Spec).                                  *)
(***************************************************************************)
\* a row of usuarios has the role admin and activo true / 1
HayAdminActivo ==
  \E i \in 1..Len(usuarios) :
    usuarios[i].rol = "admin" /\ usuarios[i].activo \in {"true", "1"}

\* C14: the login form and the pages are reached only while an active admin
\* row exists.  While none exists every run stops after the bootstrap form
\* (or before it, in ensure_schema_or_stop): no login sets the session's
\* user, and the only change to the tables is a new row of usuarios with
\* the role admin.
C14_BootstrapGating ==
  /\ [](user # NoUser => HayAdminActivo)
  /\ [][/\ outcome'.op \in {"login", "logout", "navegar", "new_user"} => HayAdminActivo
        /\ ~HayAdminActivo =>
             /\ outcome'.op \in {"bootstrap_admin", "ensure_schema_or_stop"}
             /\ user' = NoUser
             /\ UNCHANGED <<clientes, locales, asignaciones, reportes, fotos, photo_buffer>>
             /\ \/ usuarios' = usuarios
                \/ /\ Len(usuarios') = Len(usuarios) + 1
                   /\ SubSeq(usuarios', 1, Len(usuarios)) = usuarios
                   /\ usuarios'[Len(usuarios')].rol = "admin"]_vars

\* a run of the bootstrap form that created no admin, with an inactive admin
\* row in the table: no active admin, no session user
C14_Witness ==
  /\ outcome.op = "bootstrap_admin"
  /\ outcome.result = "Passwords no coinciden."
  /\ Len(usuarios) = 1 /\ usuarios[1].rol = "admin"
  /\ ~HayAdminActivo
  /\ user = NoUser
=============================================================================
